---- MODULE Spec2Model ----
(***************************************************************************)
(* Chain integrity and proof-of-work engine of javascript-blockchain:      *)
(* class Block (constructor, calculateHash, mineBlock) and class           *)
(* Blockchain (constructor, createGenesisBlock, getLatestBlock, addBlock,  *)
(* isChainValid).                                                          *)
(*                                                                         *)
(* Block objects live in a heap (a sequence of records, the position is    *)
(* the object identity) and the chain is an array of references into it,   *)
(* as in JavaScript: the caller may hand addBlock any Block it can reach.  *)
(* JavaScript values carry their type, because `+` and `++` depend on it.  *)
(* Strings are sequences of one-character strings.                         *)
(***************************************************************************)
EXTENDS Integers, Sequences, FiniteSets, TLC

(* ---------------- bounds of the model ---------------- *)
\* Block objects ever constructed, the genesis included.
MaxBlocks == 3
\* Length of the chain array (addBlock of an object already in it can repeat).
MaxChain == 3
\* External writes to fields of chained blocks in one behaviour.
MaxTampers == 1
\* Block objects ever constructed when mineBlock is followed step by step.
LiveMaxBlocks == 2

(* ---------------- JavaScript values ---------------- *)
Num(n) == [t |-> "number", n |-> n]
Str(s) == [t |-> "string", s |-> s]
Undefined == [t |-> "undefined"]
Obj(props) == [t |-> "object", props |-> props]

Digits == <<"0", "1", "2", "3", "4", "5", "6", "7", "8", "9">>

RECURSIVE NumbertoString(_)
\* Number.prototype.toString for a non-negative integer: its decimal digits.
NumbertoString(n) ==
    IF n < 10 THEN <<Digits[n + 1]>>
    ELSE NumbertoString(n \div 10) \o <<Digits[(n % 10) + 1]>>

\* ToString of the values that reach a `+` in calculateHash.
toString(v) ==
    CASE v.t = "number" -> NumbertoString(v.n)
      [] v.t = "string" -> v.s
      [] v.t = "undefined" -> <<"u", "n", "d", "e", "f", "i", "n", "e", "d">>

\* The binary `+`: numeric addition of two numbers, else string concatenation.
JsAdd(a, b) ==
    IF a.t = "number" /\ b.t = "number" THEN Num(a.n + b.n)
    ELSE Str(toString(a) \o toString(b))

DigitValue(c) == CHOOSE k \in 0..9 : Digits[k + 1] = c

RECURSIVE StringToNumber(_)
StringToNumber(s) ==
    IF Len(s) = 0 THEN 0
    ELSE 10 * StringToNumber(SubSeq(s, 1, Len(s) - 1)) + DigitValue(s[Len(s)])

\* ToNumber of a number or of a string of decimal digits ('0' is 0).
ToNumber(v) == IF v.t = "number" THEN v.n ELSE StringToNumber(v.s)

RECURSIVE JSONstringifyProps(_, _)
RECURSIVE JSONstringify(_)
\* JSON.stringify of the properties of an object, in insertion order; a
\* property whose value is undefined is left out.
JSONstringifyProps(props, first) ==
    IF Len(props) = 0 THEN <<>>
    ELSE LET p == Head(props)
             v == JSONstringify(p[2])
         IN  IF v.t = "undefined" THEN JSONstringifyProps(Tail(props), first)
             ELSE (IF first THEN <<>> ELSE <<",">>)
                  \o <<"\"">> \o p[1] \o <<"\"", ":">> \o v.s
                  \o JSONstringifyProps(Tail(props), FALSE)

\* JSON.stringify: a string value (or undefined for undefined).
JSONstringify(v) ==
    CASE v.t = "undefined" -> Undefined
      [] v.t = "number" -> Str(NumbertoString(v.n))
      [] v.t = "string" -> Str(<<"\"">> \o v.s \o <<"\"">>)
      [] v.t = "object" -> Str(<<"{">> \o JSONstringifyProps(v.props, TRUE) \o <<"}">>)

(* ---------------- the digest primitive ---------------- *)
\* Hex characters of SHA256(...).toString(): 64 in crypto-js, scaled down.
HashWidth == 2
HashMul == 101
HexDigits == <<"0", "1", "2", "3", "4", "5", "6", "7", "8", "9",
               "a", "b", "c", "d", "e", "f">>
RECURSIVE Pow16(_)
Pow16(k) == IF k = 0 THEN 1 ELSE 16 * Pow16(k - 1)
HashMod == Pow16(HashWidth)

\* The code of each character of the message texts of the model.
CharCode ==
    "0" :> 0 @@ "1" :> 1 @@ "2" :> 2 @@ "3" :> 3 @@ "4" :> 4 @@ "5" :> 5 @@
    "6" :> 6 @@ "7" :> 7 @@ "8" :> 8 @@ "9" :> 9 @@ "a" :> 10 @@ "b" :> 11 @@
    "c" :> 12 @@ "d" :> 13 @@ "e" :> 14 @@ "f" :> 15 @@ "g" :> 16 @@
    "h" :> 17 @@ "i" :> 18 @@ "j" :> 19 @@ "k" :> 20 @@ "l" :> 21 @@
    "m" :> 22 @@ "n" :> 23 @@ "o" :> 24 @@ "p" :> 25 @@ "q" :> 26 @@
    "r" :> 27 @@ "s" :> 28 @@ "t" :> 29 @@ "u" :> 30 @@ "v" :> 31 @@
    "w" :> 32 @@ "x" :> 33 @@ "y" :> 34 @@ "z" :> 35 @@ "G" :> 36 @@
    "{" :> 37 @@ "}" :> 38 @@ "\"" :> 39 @@ ":" :> 40 @@ "," :> 41 @@
    "/" :> 42 @@ " " :> 43

\* The compression of the message text s from digest state h, one character
\* at a time.
Absorb(h, s) ==
    LET state[k \in 0..Len(s)] ==
            IF k = 0 THEN h
            ELSE (state[k - 1] * HashMul + CharCode[s[k]]) % HashMod
    IN  state[Len(s)]

\* WordArray.toString(): HashWidth lowercase hex characters, the digit that
\* varies fastest with the end of the message first.
ToHex(h) == [i \in 1..HashWidth |-> HexDigits[((h \div Pow16(i - 1)) % 16) + 1]]

\* SHA256(message).toString(): deterministic, fixed width.
SHA256(message) ==
    CHOOSE digest \in {Str(ToHex(Absorb(0, text))) : text \in {toString(message)}} : TRUE

(* ---------------- class Block ---------------- *)
\* The argument of SHA256 in calculateHash: left-associated `+`, the nonce
\* joined last.
HashPrefix(b) ==
    JsAdd(JsAdd(JsAdd(b.index, b.timestamp), b.previousHash),
          JSONstringify(b.data))
HashInput(b) == JsAdd(HashPrefix(b), b.nonce)

calculateHash(b) == SHA256(HashInput(b))

\* calculateHash() in two parts: the digest state after the text before the
\* nonce, which mining leaves alone, and the digest of the whole text from it.
PrefixState(b) ==
    CHOOSE mid \in {Absorb(0, text) : text \in {toString(HashPrefix(b))}} : TRUE
HashFrom(mid, nonce) ==
    CHOOSE digest \in {Str(ToHex(Absorb(mid, text))) : text \in {toString(nonce)}} : TRUE

\* constructor(index, timestamp, data, previousHash = ''): the hash is taken
\* while the object has no nonce property yet, then nonce is set to '0'.
Block(index, timestamp, data, previousHash) ==
    LET b0 == [index |-> index, timestamp |-> timestamp, data |-> data,
               previousHash |-> previousHash, hash |-> Undefined,
               nonce |-> Undefined]
        b1 == [b0 EXCEPT !.hash = calculateHash(b0)]
    IN  [b1 EXCEPT !.nonce = Str(<<"0">>)]

\* String.prototype.substring(start, end) with 0 <= start: end is clamped
\* to the length of the string.
Substring(s, start, end) ==
    SubSeq(s, start + 1, IF end > Len(s) THEN Len(s) ELSE end)

\* Array(difficulty + 1).join("0"): difficulty characters '0'.
ZeroString(difficulty) == [i \in 1..difficulty |-> "0"]

\* As TargetMet with Array(difficulty) for Array(difficulty + 1): one '0' short.
TargetMetOffByOne(b, difficulty) ==
    Substring(b.hash.s, 0, difficulty - 1) = ZeroString(difficulty - 1)

\* The negation of the loop condition of mineBlock ('0', the start index,
\* converts to the number 0).
TargetMet(b, difficulty) ==
    Substring(b.hash.s, 0, difficulty) = ZeroString(difficulty)

\* this.nonce++ on a double: above MaxNonce (2^53 in JavaScript) adding 1
\* gives the same number back.
MaxNonce == 30
\* As Increment with this.nonce += 2.
IncrementByTwo(v) ==
    LET n == ToNumber(v) IN Num(IF n + 1 >= MaxNonce THEN n ELSE n + 2)

Increment(v) ==
    LET n == ToNumber(v) IN Num(IF n >= MaxNonce THEN n ELSE n + 1)

\* As MineStepFrom without this.hash = this.calculateHash().
MineStepFromNoHash(b, mid) == [b EXCEPT !.nonce = Increment(b.nonce)]

\* As MineStepFrom with the hash stored in previousHash as well.
MineStepFromWritesLink(b, mid) ==
    LET nonce == Increment(b.nonce)
    IN  [b EXCEPT !.nonce = nonce, !.hash = HashFrom(mid, nonce),
                  !.previousHash = HashFrom(mid, nonce)]

\* The body of the loop of mineBlock: this.nonce++; this.hash =
\* this.calculateHash(), with mid the digest state of the text before the nonce.
MineStepFrom(b, mid) ==
    LET n == Increment(b.nonce)
    IN  [b EXCEPT !.nonce = n, !.hash = HashFrom(mid, n)]

MineStep(b) == MineStepFrom(b, PrefixState(b))

RECURSIVE MineLoop(_, _, _, _)
\* The block after the loop of mineBlock has made at most k more tests of
\* its condition, stopping at the first one that finds the target met
\* (the k tests are split in halves to keep the evaluation shallow).
MineLoop(b, difficulty, k, mid) ==
    IF TargetMet(b, difficulty) THEN b
    ELSE IF k = 1 THEN MineStepFrom(b, mid)
    ELSE CHOOSE r \in {MineLoop(m, difficulty, k - (k \div 2), mid) :
                          m \in {MineLoop(b, difficulty, k \div 2, mid)}} : TRUE

\* The number of iterations that decide whether the loop of mineBlock ends.
\* After MaxNonce + 1 of them the nonce no longer grows and the hash no longer
\* changes. A hash with fewer characters than difficulty never equals
\* difficulty characters '0', substring returning no more than the hash
\* has: there one iteration decides.
MineHorizon(b, difficulty) ==
    IF difficulty > HashWidth /\ Len(b.hash.s) = HashWidth THEN 1 ELSE MaxNonce + 1

\* mineBlock(difficulty): the block as the call leaves it when it returns; if
\* the target is not met after MineHorizon iterations the loop never ends.
mineBlock(b, difficulty) ==
    CHOOSE res \in {[returns |-> TargetMet(r, difficulty), block |-> r] :
                       r \in {MineLoop(b, difficulty, MineHorizon(b, difficulty), mid) :
                                 mid \in {PrefixState(b)}}} : TRUE

(* ---------------- class Blockchain ---------------- *)
VARIABLES
    heap,        \* the Block objects: heap[id] is the object's fields
    chain,       \* this.chain: references (ids) to Block objects
    difficulty,  \* this.difficulty
    tampers,     \* field writes made from outside the two classes so far
    lastOp,      \* the call that returned last
    pc           \* the call of mineBlock in progress, if any
vars == <<heap, chain, difficulty, tampers, lastOp, pc>>

\* As createGenesisBlock without its fourth argument: previousHash defaults.
createGenesisBlockDefaultPrevious ==
    Block(Num(0),
          Str(<<"2", "3", "/", "0", "1", "/", "2", "0", "1", "8">>),
          Str(<<"G", "e", "n", "e", "s", "i", "s", " ", "b", "l", "o", "c", "k",
                " ", "d", "a", "t", "a">>),
          Str(<<>>))

createGenesisBlock ==
    Block(Num(0),
          Str(<<"2", "3", "/", "0", "1", "/", "2", "0", "1", "8">>),
          Str(<<"G", "e", "n", "e", "s", "i", "s", " ", "b", "l", "o", "c", "k",
                " ", "d", "a", "t", "a">>),
          Str(<<"0">>))

\* The reference getLatestBlock() returns.
getLatestBlock(ch) == ch[Len(ch)]

RECURSIVE isChainValidFromNoHashCheck(_, _, _)
\* As isChainValidFrom without check 1 (the hash recomputed).
isChainValidFromNoHashCheck(hp, ch, i) ==
    IF i > Len(ch) THEN TRUE
    ELSE LET currentBlock == hp[ch[i]]
             previousBlock == hp[ch[i - 1]]
         IN  IF currentBlock.previousHash # previousBlock.hash THEN FALSE
             ELSE isChainValidFromNoHashCheck(hp, ch, i + 1)

RECURSIVE isChainValidFromNoLinkCheck(_, _, _)
\* As isChainValidFrom without check 2 (the link to the previous block).
isChainValidFromNoLinkCheck(hp, ch, i) ==
    IF i > Len(ch) THEN TRUE
    ELSE LET currentBlock == hp[ch[i]]
         IN  IF currentBlock.hash # calculateHash(currentBlock) THEN FALSE
             ELSE isChainValidFromNoLinkCheck(hp, ch, i + 1)

\* As isChainValidFrom with `return true` inside the loop: only the first
\* block visited is checked.
isChainValidFromFirstOnly(hp, ch, i) ==
    IF i > Len(ch) THEN TRUE
    ELSE LET currentBlock == hp[ch[i]]
             previousBlock == hp[ch[i - 1]]
         IN  IF currentBlock.hash # calculateHash(currentBlock) THEN FALSE
             ELSE IF currentBlock.previousHash # previousBlock.hash THEN FALSE
             ELSE TRUE

RECURSIVE isChainValidFrom(_, _, _)
\* The loop of isChainValid from position i (1-based here, i - 1 in the code).
isChainValidFrom(hp, ch, i) ==
    IF i > Len(ch) THEN TRUE
    ELSE LET currentBlock == hp[ch[i]]
             previousBlock == hp[ch[i - 1]]
         IN  IF currentBlock.hash # calculateHash(currentBlock) THEN FALSE
             ELSE IF currentBlock.previousHash # previousBlock.hash THEN FALSE
             ELSE isChainValidFrom(hp, ch, i + 1)

\* As isChainValid with the loop started at i = 2.
isChainValidFromSecond(hp, ch) == isChainValidFrom(hp, ch, 3)

\* As isChainValid with the loop started at i = 0 for the hash check: the
\* genesis block's stored hash is recomputed too.
isChainValidWithGenesis(hp, ch) ==
    IF hp[ch[1]].hash # calculateHash(hp[ch[1]]) THEN FALSE
    ELSE isChainValidFrom(hp, ch, 2)

\* As isChainValid with the genesis block audited too: its previousHash is
\* compared with the sentinel "0".
isChainValidSentinel(hp, ch) ==
    IF hp[ch[1]].previousHash # Str(<<"0">>) THEN FALSE
    ELSE isChainValidFrom(hp, ch, 2)

\* As isChainValid with only the tip audited: the loop starts at the last
\* position.
isChainValidTipOnly(hp, ch) ==
    IF Len(ch) < 2 THEN TRUE ELSE isChainValidFrom(hp, ch, Len(ch))

isChainValid(hp, ch) == isChainValidFrom(hp, ch, 2)

(* ---------------- inputs of the caller ---------------- *)
Amount(n) == Obj(<< <<(<<"a", "m", "o", "u", "n", "t">>), Num(n)>> >>)
AmountNote(n) ==
    Obj(<< <<(<<"a", "m", "o", "u", "n", "t">>), Num(n)>>,
           <<(<<"n", "o", "t", "e">>), Undefined>> >>)
\* The arguments of the caller's new Block(index, timestamp, data): the two
\* blocks of the demo, the second with a number for its index.
BlockArgs ==
    { <<Str(<<"1">>), Str(<<"2", "1", "/", "0", "1", "/", "2", "0", "1", "8">>),
        Amount(6)>>,
      <<Num(2), Str(<<"2", "2", "/", "0", "1", "/", "2", "0", "1", "8">>),
        Amount(2)>> }
\* Payloads a caller overwrites data with: AmountNote(6) serializes as
\* Amount(6) does.
TamperPayloads == {Amount(666), AmountNote(6)}
\* The chain's difficulty: 5 of 64 characters in the source; every value up
\* to one more than the digest has characters here.
MaxDifficulty == HashWidth + 1
Difficulties == 0..MaxDifficulty

Op(op, b, i, d) == [op |-> op, b |-> b, i |-> i, d |-> d]

\* No call in progress; mineBlock(d) running on block b, called from `from`.
Idle == [at |-> "idle", b |-> 0, d |-> 0, from |-> "none"]
Mining(b, d, from) == [at |-> "mineBlock", b |-> b, d |-> d, from |-> from]

Init ==
    /\ heap = <<createGenesisBlock>>
    /\ chain = <<1>>
    /\ difficulty \in Difficulties
    /\ tampers = 0
    /\ lastOp = Op("Blockchain", 1, 1, 0)
    /\ pc = Idle

\* new Block(index, timestamp, data) by the caller.
NewBlock(index, timestamp, data) ==
    /\ Len(heap) < MaxBlocks
    /\ heap' = Append(heap, Block(index, timestamp, data, Str(<<>>)))
    /\ lastOp' = Op("Block", Len(heap) + 1, 0, 0)
    /\ UNCHANGED <<chain, difficulty, tampers, pc>>

\* As AddBlockHeap with the assignment of step 1 reversed:
\* this.getLatestBlock().hash = newBlock.previousHash.
AddBlockHeapReversed(hp, ch, d, newBlock) ==
    LET h1 == [hp EXCEPT ![getLatestBlock(ch)].hash = hp[newBlock].previousHash]
    IN  CHOOSE res \in {[returns |-> m.returns,
                         heap |-> [h1 EXCEPT ![newBlock] = m.block]] :
                           m \in {mineBlock(h1[newBlock], d)}} : TRUE

\* As AddBlockHeap with chain[0] for getLatestBlock(): the new block is
\* linked to the first block of the chain.
AddBlockHeapLinksFirst(hp, ch, d, newBlock) ==
    LET h1 == [hp EXCEPT ![newBlock].previousHash = hp[ch[1]].hash]
    IN  CHOOSE res \in {[returns |-> m.returns,
                         heap |-> [h1 EXCEPT ![newBlock] = m.block]] :
                           m \in {mineBlock(h1[newBlock], d)}} : TRUE

\* As AddBlockHeap before mining was added: the hash is recalculated once
\* and the block is not mined.
AddBlockHeapNoMining(hp, ch, d, newBlock) ==
    LET h1 == [hp EXCEPT ![newBlock].previousHash = hp[getLatestBlock(ch)].hash]
    IN  [returns |-> TRUE,
         heap |-> [h1 EXCEPT ![newBlock].hash = calculateHash(h1[newBlock])]]

\* Steps 1 and 2 of addBlock(newBlock): whether mineBlock returns, and the
\* heap it leaves.
AddBlockHeap(hp, ch, d, newBlock) ==
    LET h1 == [hp EXCEPT ![newBlock].previousHash = hp[getLatestBlock(ch)].hash]
    IN  CHOOSE res \in {[returns |-> m.returns,
                         heap |-> [h1 EXCEPT ![newBlock] = m.block]] :
                           m \in {mineBlock(h1[newBlock], d)}} : TRUE

\* addBlock(newBlock) for any Block object the caller holds.
AddBlock(newBlock) ==
    /\ Len(chain) < MaxChain
    /\ \E h \in {AddBlockHeap(heap, chain, difficulty, newBlock)} :
          /\ h.returns
          /\ heap' = h.heap
    /\ chain' = Append(chain, newBlock)
    /\ lastOp' = Op("addBlock", newBlock, Len(chain) + 1, difficulty)
    /\ UNCHANGED <<difficulty, tampers, pc>>

InChain(b) == \E i \in 1..Len(chain) : chain[i] = b

\* block.mineBlock(d) called by the caller on a block not yet in the chain.
MineBlock(b, d) ==
    /\ ~InChain(b)
    /\ \E m \in {mineBlock(heap[b], d)} :
          /\ m.returns
          /\ heap' = [heap EXCEPT ![b] = m.block]
    /\ lastOp' = Op("mineBlock", b, 0, d)
    /\ UNCHANGED <<chain, difficulty, tampers, pc>>

\* Values a caller may write into previousHash: the sentinel and the stored
\* hash of the genesis block.
LinkValues == {Str(<<"0">>), heap[chain[1]].hash}

\* chain[i].data = data, written by the caller (position i is 1-based).
TamperData(i, data) ==
    /\ tampers < MaxTampers
    /\ heap' = [heap EXCEPT ![chain[i]].data = data]
    /\ tampers' = tampers + 1
    /\ lastOp' = Op("tamperData", chain[i], i, 0)
    /\ UNCHANGED <<chain, difficulty, pc>>

\* chain[i].data = data; chain[i].hash = chain[i].calculateHash().
TamperRehash(i, data) ==
    /\ tampers < MaxTampers
    /\ LET b1 == [heap[chain[i]] EXCEPT !.data = data]
       IN  heap' = [heap EXCEPT ![chain[i]] = [b1 EXCEPT !.hash = calculateHash(b1)]]
    /\ tampers' = tampers + 1
    /\ lastOp' = Op("tamperRehash", chain[i], i, 0)
    /\ UNCHANGED <<chain, difficulty, pc>>

\* chain[i].previousHash = v, written by the caller.
TamperLink(i, v) ==
    /\ tampers < MaxTampers
    /\ heap' = [heap EXCEPT ![chain[i]].previousHash = v]
    /\ tampers' = tampers + 1
    /\ lastOp' = Op("tamperLink", chain[i], i, 0)
    /\ UNCHANGED <<chain, difficulty, pc>>

Next ==
    \/ \E a \in BlockArgs : NewBlock(a[1], a[2], a[3])
    \/ \E b \in 1..Len(heap) : AddBlock(b)
    \/ \E b \in 1..Len(heap), d \in Difficulties : MineBlock(b, d)
    \/ \E i \in 1..Len(chain), data \in TamperPayloads : TamperData(i, data)
    \/ \E i \in 1..Len(chain), data \in TamperPayloads : TamperRehash(i, data)
    \/ \E i \in 1..Len(chain), v \in LinkValues : TamperLink(i, v)

Spec == Init /\ [][Next]_vars

(* ---------------- mineBlock one iteration at a time ---------------- *)
\* addBlock(newBlock) up to the call of mineBlock: step 1 and the entry.
AddBlockCall(newBlock) ==
    /\ pc = Idle
    /\ Len(chain) < MaxChain
    /\ heap' = [heap EXCEPT ![newBlock].previousHash = heap[getLatestBlock(chain)].hash]
    /\ pc' = Mining(newBlock, difficulty, "addBlock")
    /\ UNCHANGED <<chain, difficulty, tampers, lastOp>>

\* block.mineBlock(d) called by the caller on a block not yet in the chain.
MineBlockCall(b, d) ==
    /\ pc = Idle
    /\ ~InChain(b)
    /\ pc' = Mining(b, d, "caller")
    /\ UNCHANGED <<heap, chain, difficulty, tampers, lastOp>>

\* One iteration of the loop of mineBlock: the condition holds, the body runs.
MineIterate ==
    /\ pc.at = "mineBlock"
    /\ ~TargetMet(heap[pc.b], pc.d)
    /\ heap' = [heap EXCEPT ![pc.b] = MineStep(heap[pc.b])]
    /\ UNCHANGED <<chain, difficulty, tampers, lastOp, pc>>

\* The loop condition fails: mineBlock returns, and addBlock pushes the block.
MineReturn ==
    /\ pc.at = "mineBlock"
    /\ TargetMet(heap[pc.b], pc.d)
    /\ IF pc.from = "addBlock"
          THEN /\ chain' = Append(chain, pc.b)
               /\ lastOp' = Op("addBlock", pc.b, Len(chain) + 1, pc.d)
          ELSE /\ chain' = chain
               /\ lastOp' = Op("mineBlock", pc.b, 0, pc.d)
    /\ pc' = Idle
    /\ UNCHANGED <<heap, difficulty, tampers>>

LiveNext ==
    \/ \E a \in BlockArgs :
          pc = Idle /\ Len(heap) < LiveMaxBlocks /\ NewBlock(a[1], a[2], a[3])
    \/ \E b \in 1..Len(heap) : AddBlockCall(b)
    \/ \E b \in 1..Len(heap), d \in Difficulties : MineBlockCall(b, d)
    \/ MineIterate
    \/ MineReturn

\* The engine is synchronous: a loop that can make a step makes it.
SpecLive == Init /\ [][LiveNext]_vars /\ WF_vars(MineIterate) /\ WF_vars(MineReturn)

(* ---------------- the audit and writes to any field ---------------- *)
\* As IsChainValidCall with = for !== in check 2, `if (currentBlock.previousHash
\* = previousBlock.hash)`: the first block visited has its previousHash
\* assigned and, the hash being a non-empty string, false is returned.
IsChainValidCallAssigning ==
    /\ lastOp' = [op |-> "isChainValid", b |-> 0, i |-> 0, d |-> 0,
                  r |-> IF Len(chain) < 2 THEN TRUE ELSE FALSE]
    /\ heap' = IF Len(chain) < 2
                  \/ heap[chain[2]].hash # calculateHash(heap[chain[2]])
               THEN heap
               ELSE [heap EXCEPT ![chain[2]].previousHash = heap[chain[1]].hash]
    /\ UNCHANGED <<chain, difficulty, tampers, pc>>

\* this.isChainValid() called by the caller; r is the value returned.
IsChainValidCall ==
    /\ lastOp' = [op |-> "isChainValid", b |-> 0, i |-> 0, d |-> 0,
                  r |-> isChainValid(heap, chain)]
    /\ UNCHANGED <<heap, chain, difficulty, tampers, pc>>

\* block.calculateHash() called by the caller on any Block object; r is the
\* value returned, i is 2 when the call before it was the same call.
CalculateHashCall(b) ==
    /\ lastOp' = [op |-> "calculateHash", b |-> b,
                  i |-> IF lastOp.op = "calculateHash" /\ lastOp.b = b THEN 2 ELSE 1,
                  d |-> 0, r |-> calculateHash(heap[b])]
    /\ UNCHANGED <<heap, chain, difficulty, tampers, pc>>

\* Values a caller writes into index, timestamp and nonce.
TamperFields ==
    { <<"index", Num(7)>>,
      <<"timestamp", Str(<<"2", "2", "/", "0", "1", "/", "2", "0", "1", "8">>)>>,
      <<"nonce", Num(7)>> }

\* chain[i][field] = v, written by the caller (position i is 1-based).
TamperField(i, field, v) ==
    /\ tampers < MaxTampers
    /\ heap' = [heap EXCEPT ![chain[i]][field] = v]
    /\ tampers' = tampers + 1
    /\ lastOp' = Op("tamperField", chain[i], i, 0)
    /\ UNCHANGED <<chain, difficulty, pc>>

AuditNext ==
    \/ \E a \in BlockArgs : NewBlock(a[1], a[2], a[3])
    \/ \E b \in 1..Len(heap) : AddBlock(b)
    \/ \E i \in 1..Len(chain), data \in TamperPayloads : TamperData(i, data)
    \/ \E i \in 1..Len(chain), data \in TamperPayloads : TamperRehash(i, data)
    \/ \E i \in 1..Len(chain), v \in LinkValues : TamperLink(i, v)
    \/ \E i \in 1..Len(chain), f \in TamperFields : TamperField(i, f[1], f[2])
    \/ IsChainValidCall
    \/ \E b \in 1..Len(heap) : CalculateHashCall(b)

SpecAudit == Init /\ [][AuditNext]_vars

(* ---------------- properties ---------------- *)
\* The payloads the caller's blocks are constructed with.
ConstructedPayloads == {a[3] : a \in BlockArgs}

\* Block object id is field for field as new Block(...) returned it and has
\* not been passed to addBlock.
FreshBlock(id) ==
    /\ ~InChain(id)
    /\ heap[id] = Block(heap[id].index, heap[id].timestamp, heap[id].data, Str(<<>>))

\* The step is a call of op that returns.
Returned(op) == lastOp'.op = op

\* C1: from a chain for which isChainValid() is true, addBlock(b) of a
\* freshly constructed block b leaves isChainValid() true, at every difficulty.
C1_AppendPreservesValidity ==
    [][(Returned("addBlock") /\ FreshBlock(lastOp'.b) /\ isChainValid(heap, chain))
         => isChainValid(heap', chain')]_vars

\* The digests of the two blocks differ if their hash inputs do.
NoCollision(b1, b2) ==
    HashInput(b1) # HashInput(b2) => calculateHash(b1) # calculateHash(b2)

\* C2: in a valid chain built by the constructor and addBlock, overwriting the
\* data of a non-genesis block with a payload that serializes differently,
\* the hash left alone, makes isChainValid() false (different hash inputs
\* giving different digests).
C2_PayloadTamperDetected ==
    [][(/\ Returned("tamperData")
        /\ lastOp'.i >= 2
        /\ tampers = 0
        /\ isChainValid(heap, chain)
        /\ JSONstringify(heap'[lastOp'.b].data) # JSONstringify(heap[lastOp'.b].data)
        /\ NoCollision(heap'[lastOp'.b], heap[lastOp'.b]))
         => ~isChainValid(heap', chain')]_vars

\* A chain of three blocks in which a caller has overwritten the data of a
\* non-genesis block: the audit fails, and passes with the data put back.
C2_Witness ==
    /\ lastOp.op = "tamperData"
    /\ lastOp.i >= 2
    /\ Len(chain) = 3
    /\ ~isChainValid(heap, chain)
    /\ \E data \in ConstructedPayloads :
          isChainValid([heap EXCEPT ![lastOp.b].data = data], chain)

\* C3 as stated: in a valid chain, changing the data of a non-genesis block
\* that has a successor and setting its hash to calculateHash() makes
\* isChainValid() false.
C3_RehashedTamperDetected ==
    [][(/\ Returned("tamperRehash")
        /\ lastOp'.i >= 2
        /\ lastOp'.i < Len(chain)
        /\ isChainValid(heap, chain)
        /\ heap'[lastOp'.b].data # heap[lastOp'.b].data
        /\ NoCollision(heap'[lastOp'.b], heap[lastOp'.b]))
         => ~isChainValid(heap', chain')]_vars

\* C3 amended: the same when the new data serializes differently (different
\* hash inputs giving different digests).
C3_RehashedTamperDetectedAmended ==
    [][(/\ Returned("tamperRehash")
        /\ lastOp'.i >= 2
        /\ lastOp'.i < Len(chain)
        /\ isChainValid(heap, chain)
        /\ JSONstringify(heap'[lastOp'.b].data) # JSONstringify(heap[lastOp'.b].data)
        /\ NoCollision(heap'[lastOp'.b], heap[lastOp'.b]))
         => ~isChainValid(heap', chain')]_vars

\* A caller has re-hashed a tampered middle block: the block itself passes
\* the hash check, its successor no longer links to it, the audit fails.
C3_Witness ==
    /\ lastOp.op = "tamperRehash"
    /\ lastOp.i = 2
    /\ Len(chain) = 3
    /\ heap[chain[2]].hash = calculateHash(heap[chain[2]])
    /\ heap[chain[2]].previousHash = heap[chain[1]].hash
    /\ heap[chain[3]].hash = calculateHash(heap[chain[3]])
    /\ heap[chain[3]].previousHash # heap[chain[2]].hash
    /\ ~isChainValid(heap, chain)

\* C4: in a valid chain, writing into the previousHash of a non-genesis block
\* a value other than the stored hash of its predecessor makes
\* isChainValid() false.
C4_LinkageTamperDetected ==
    [][(/\ Returned("tamperLink")
        /\ lastOp'.i >= 2
        /\ isChainValid(heap, chain)
        /\ heap'[lastOp'.b].previousHash # heap[chain[lastOp'.i - 1]].hash)
         => ~isChainValid(heap', chain')]_vars

\* A caller has overwritten the previousHash of the last of three blocks with
\* another value than its predecessor's hash; the audit fails.
C4_Witness ==
    /\ lastOp.op = "tamperLink"
    /\ lastOp.i = 3
    /\ Len(chain) = 3
    /\ heap[chain[3]].previousHash # heap[chain[2]].hash
    /\ isChainValid(heap, SubSeq(chain, 1, 2))
    /\ ~isChainValid(heap, chain)

\* C5: when new Block(...) returns, nonce is 0 and the stored hash equals
\* calculateHash() of the block as it is.
C5_ConstructionPostcondition ==
    lastOp.op = "Block" =>
        /\ ToNumber(heap[lastOp.b].nonce) = 0
        /\ heap[lastOp.b].hash = calculateHash(heap[lastOp.b])

\* A call of mineBlock has returned: directly or inside addBlock.
Mined == lastOp.op \in {"mineBlock", "addBlock"}

\* C6: whenever mineBlock(d) returns, the stored hash equals calculateHash()
\* of the block as it is.
C6_MiningLeavesDigestFresh ==
    Mined => heap[lastOp.b].hash = calculateHash(heap[lastOp.b])

\* C7: whenever mineBlock(d) returns, the first d characters of the stored
\* hash are '0', and mineBlock(0) leaves the nonce as it was.
C7_MiningPostcondition ==
    [][(Returned("mineBlock") \/ Returned("addBlock")) =>
          /\ Len(heap'[lastOp'.b].hash.s) >= lastOp'.d
          /\ \A k \in 1..lastOp'.d : heap'[lastOp'.b].hash.s[k] = "0"
          /\ lastOp'.d = 0 => heap'[lastOp'.b].nonce = heap[lastOp'.b].nonce]_vars

\* mineBlock(d) has returned with d >= 1 after its loop has run.
C7_Witness ==
    /\ lastOp.op = "mineBlock"
    /\ lastOp.d >= 1
    /\ heap[lastOp.b].nonce.t = "number"
    /\ heap[lastOp.b].nonce.n >= 2

\* The digest of the block with nonce n has the first d of its characters,
\* or all of them if it has fewer, equal to '0'.
ZerosAt(mid, n, d) ==
    LET h == HashFrom(mid, Num(n)).s
    IN  \A k \in 1..(IF d > Len(h) THEN Len(h) ELSE d) : h[k] = "0"

\* The digest the target asks for is produced as the nonce increases: the
\* stored hash has it, or a nonce the loop has yet to try gives it.
ProducedAhead(b, d) ==
    \/ \A k \in 1..(IF d > Len(b.hash.s) THEN Len(b.hash.s) ELSE d) : b.hash.s[k] = "0"
    \/ \E mid \in {PrefixState(b)} :
          \E n \in (ToNumber(b.nonce) + 1)..MaxNonce : ZerosAt(mid, n, d)

\* C8 as stated: mineBlock(d) returns for every d >= 0 and every block,
\* the digest of HashWidth characters producing the values it is asked for.
C8_MiningTerminates ==
    (pc.at = "mineBlock" /\ ProducedAhead(heap[pc.b], pc.d)) ~> (pc.at = "idle")

\* C8 amended: the same for every d from 0 to the number of characters of
\* the digest.
C8_MiningTerminatesAmended ==
    (pc.at = "mineBlock" /\ pc.d <= HashWidth /\ ProducedAhead(heap[pc.b], pc.d))
        ~> (pc.at = "idle")

\* addBlock has returned from a mineBlock(d), 1 <= d <= HashWidth, whose loop
\* has run.
C8_Witness ==
    /\ pc = Idle
    /\ lastOp.op = "addBlock"
    /\ lastOp.d >= 1
    /\ lastOp.d <= HashWidth
    /\ heap[lastOp.b].nonce.t = "number"
    /\ heap[lastOp.b].nonce.n >= 2

\* C9 as stated: addBlock(b) leaves every block that was in the chain as it
\* was and in its place, and the chain one longer, whatever object b is.
C9_AppendOnly ==
    [][Returned("addBlock") =>
          /\ Len(chain') = Len(chain) + 1
          /\ \A i \in 1..Len(chain) :
                chain'[i] = chain[i] /\ heap'[chain'[i]] = heap[chain[i]]]_vars

\* C9 amended: the same for every object b that is not already in the chain.
C9_AppendOnlyAmended ==
    [][(Returned("addBlock") /\ ~InChain(lastOp'.b)) =>
          /\ Len(chain') = Len(chain) + 1
          /\ \A i \in 1..Len(chain) :
                chain'[i] = chain[i] /\ heap'[chain'[i]] = heap[chain[i]]]_vars

\* addBlock has returned and the chain holds three different objects.
C9_Witness ==
    /\ lastOp.op = "addBlock"
    /\ Len(chain) = 3
    /\ Cardinality({chain[i] : i \in 1..Len(chain)}) = 3

\* chain[0] has the four fields createGenesisBlock gives it.
GenesisAnchored ==
    /\ Len(chain) >= 1
    /\ heap[chain[1]].index = Num(0)
    /\ heap[chain[1]].timestamp =
          Str(<<"2", "3", "/", "0", "1", "/", "2", "0", "1", "8">>)
    /\ heap[chain[1]].data =
          Str(<<"G", "e", "n", "e", "s", "i", "s", " ", "b", "l", "o", "c", "k",
                " ", "d", "a", "t", "a">>)
    /\ heap[chain[1]].previousHash = Str(<<"0">>)
    /\ getLatestBlock(chain) \in DOMAIN heap

\* C10 as stated: after the constructor and any addBlock calls (no field
\* written from outside) the chain is not empty and chain[0] is the genesis
\* block.
C10_GenesisAnchor == tampers = 0 => GenesisAnchored

\* The genesis object has not been passed to addBlock: it is in the chain once.
GenesisNeverAdded == \A i \in 2..Len(chain) : chain[i] # chain[1]

\* C10 amended: the same when no addBlock call was passed the genesis object.
C10_GenesisAnchorAmended == (tampers = 0 /\ GenesisNeverAdded) => GenesisAnchored

\* Two addBlock calls have returned, neither on the genesis object.
C10_Witness ==
    /\ lastOp.op = "addBlock"
    /\ Len(chain) = 3
    /\ tampers = 0
    /\ GenesisNeverAdded

\* C11: when new Blockchain() returns, the chain holds one block, the one
\* createGenesisBlock() gives, and isChainValid() is true.
C11_FreshChainValid ==
    lastOp.op = "Blockchain" =>
        /\ Len(chain) = 1
        /\ heap[chain[1]] = createGenesisBlock
        /\ isChainValid(heap, chain)

\* new Blockchain() has just returned: nothing has been called on it yet.
C11_Witness ==
    /\ lastOp.op = "Blockchain"
    /\ tampers = 0
    /\ Len(heap) = 1
    /\ chain = <<1>>


C14_AuditCharacterized ==
    lastOp.op = "isChainValid" =>
        (lastOp.r <=>
            \A i \in 2..Len(chain) :
                /\ heap[chain[i]].hash = calculateHash(heap[chain[i]])
                /\ heap[chain[i]].previousHash = heap[chain[i - 1]].hash)

\* The audit has returned true for a chain of three blocks whose genesis
\* block's stored hash is not its calculateHash().
C14_Witness ==
    /\ lastOp.op = "isChainValid"
    /\ lastOp.r
    /\ Len(chain) = 3
    /\ heap[chain[1]].hash # calculateHash(heap[chain[1]])


\* The step is a write from outside to a field other than hash of chain[0].
GenesisFieldWritten ==
    /\ lastOp'.op \in {"tamperData", "tamperLink", "tamperField"}
    /\ lastOp'.i = 1

\* The stored hashes form a cycle: the blocks from chain[0] to a later
\* position that holds the chain[0] object again pass the audit, so that the
\* object's hash is the digest of a text built from that very hash.
DigestCycle(hp, ch) ==
    \E j \in 2..Len(ch) : ch[j] = ch[1] /\ isChainValid(hp, SubSeq(ch, 1, j))

C16_AppendProtocol ==
    [][Returned("addBlock") =>
          /\ heap'[lastOp'.b].previousHash = heap[getLatestBlock(chain)].hash
          /\ lastOp'.d = difficulty
          /\ TargetMet(heap'[lastOp'.b], difficulty)
          /\ getLatestBlock(chain') = lastOp'.b
          /\ heap'[lastOp'.b].previousHash = heap'[chain'[Len(chain') - 1]].hash]_vars

\* C16 amended: the same for every object b other than the one that is the
\* tip when the call starts.
C16_AppendProtocolAmended ==
    [][(Returned("addBlock") /\ lastOp'.b # getLatestBlock(chain)) =>
          /\ heap'[lastOp'.b].previousHash = heap[getLatestBlock(chain)].hash
          /\ lastOp'.d = difficulty
          /\ TargetMet(heap'[lastOp'.b], difficulty)
          /\ getLatestBlock(chain') = lastOp'.b
          /\ heap'[lastOp'.b].previousHash = heap'[chain'[Len(chain') - 1]].hash]_vars

\* addBlock has returned for the third block of the chain, an object that is
\* in the chain once, after its loop has run.
C16_Witness ==
    /\ lastOp.op = "addBlock"
    /\ Len(chain) = 3
    /\ chain[3] = lastOp.b
    /\ chain[1] # lastOp.b /\ chain[2] # lastOp.b
    /\ heap[lastOp.b].nonce.t = "number"
    /\ heap[lastOp.b].previousHash = heap[chain[2]].hash


\* The block as mineBlock finds it in the call that returns in this step:
\* inside addBlock, previousHash has been assigned.
EntryBlock ==
    IF lastOp'.op = "addBlock"
    THEN [heap[lastOp'.b] EXCEPT !.previousHash = heap[getLatestBlock(chain)].hash]
    ELSE heap[lastOp'.b]

\* The digest of block b with n for its nonce has d leading '0' characters.
MeetsWith(b, n, d) ==
    LET tried == [b EXCEPT !.nonce = Num(n)]
    IN  TargetMet([tried EXCEPT !.hash = calculateHash(tried)], d)

\* C17: mineBlock(d) returns the nonce it was entered with when the stored
\* hash meets the target, and otherwise the smallest number above it whose
\* digest, over the block's other fields, has d leading '0' characters.
C17_FirstHitSearch ==
    [][(Returned("mineBlock") \/ Returned("addBlock")) =>
          IF TargetMet(EntryBlock, lastOp'.d)
          THEN heap'[lastOp'.b].nonce = EntryBlock.nonce
          ELSE /\ heap'[lastOp'.b].nonce.t = "number"
               /\ heap'[lastOp'.b].nonce.n > ToNumber(EntryBlock.nonce)
               /\ MeetsWith(EntryBlock, heap'[lastOp'.b].nonce.n, lastOp'.d)
               /\ \A n \in (ToNumber(EntryBlock.nonce) + 1)..(heap'[lastOp'.b].nonce.n - 1) :
                     ~MeetsWith(EntryBlock, n, lastOp'.d)]_vars

\* mineBlock(d), d >= 1, has returned at a nonce of 3 or more: the nonce one
\* below it does not give the digest asked for.
C17_Witness ==
    /\ lastOp.op = "mineBlock"
    /\ lastOp.d >= 1
    /\ heap[lastOp.b].nonce.t = "number"
    /\ heap[lastOp.b].nonce.n >= 3
    /\ MeetsWith(heap[lastOp.b], heap[lastOp.b].nonce.n, lastOp.d)
    /\ ~MeetsWith(heap[lastOp.b], heap[lastOp.b].nonce.n - 1, lastOp.d)


\* C18: mineBlock(d) leaves the block's index, timestamp, data and
\* previousHash, every other block, the chain and the difficulty as they were.
C18_MineBlockFrame ==
    [][Returned("mineBlock") =>
          /\ heap'[lastOp'.b].index = heap[lastOp'.b].index
          /\ heap'[lastOp'.b].timestamp = heap[lastOp'.b].timestamp
          /\ heap'[lastOp'.b].data = heap[lastOp'.b].data
          /\ heap'[lastOp'.b].previousHash = heap[lastOp'.b].previousHash
          /\ Len(heap') = Len(heap)
          /\ \A id \in 1..Len(heap) : id # lastOp'.b => heap'[id] = heap[id]
          /\ chain' = chain
          /\ difficulty' = difficulty]_vars

\* mineBlock(d) has returned after its loop has run on one of three Block
\* objects, two of them in the chain.
C18_Witness ==
    /\ lastOp.op = "mineBlock"
    /\ lastOp.d >= 1
    /\ Len(heap) = 3
    /\ Len(chain) = 2
    /\ chain[1] # chain[2]
    /\ heap[lastOp.b].nonce.t = "number"


\* chain[0] is as createGenesisBlock() made it: mineBlock has not run on it.
GenesisNeverMined ==
    /\ heap[chain[1]].nonce = createGenesisBlock.nonce
    /\ heap[chain[1]].hash = createGenesisBlock.hash

\* Every block after the first has a stored hash with `difficulty` leading
\* '0' characters.
ProofOfWork ==
    \A i \in 2..Len(chain) : TargetMet(heap[chain[i]], difficulty)

\* C19 as stated: after the constructor and any addBlock calls (no field
\* written from outside) every non-genesis block of the chain meets the
\* target of the chain's difficulty, and the genesis block has not been mined.
C19_ProofOfWork == tampers = 0 => (ProofOfWork /\ GenesisNeverMined)

\* C19 amended: the same when no addBlock call was passed the genesis object.
C19_ProofOfWorkAmended ==
    (tampers = 0 /\ GenesisNeverAdded) => (ProofOfWork /\ GenesisNeverMined)

\* Two addBlock calls have returned at a difficulty of 1 or more, neither on
\* the genesis object, whose stored hash does not meet the target.
C19_Witness ==
    /\ lastOp.op = "addBlock"
    /\ tampers = 0
    /\ difficulty >= 1
    /\ Len(chain) = 3
    /\ chain[2] # chain[3]
    /\ GenesisNeverAdded
    /\ ~TargetMet(heap[chain[1]], difficulty)


\* C20: once isChainValid() is false it is false after every addBlock(b) of
\* a freshly constructed block b.
C20_TamperedAbsorbing ==
    [][(Returned("addBlock") /\ FreshBlock(lastOp'.b) /\ ~isChainValid(heap, chain))
         => ~isChainValid(heap', chain')]_vars

\* A fresh block has been appended, at a difficulty of 1 or more, after a
\* write from outside to what was then the tip; the new block passes both
\* checks and the audit fails at the block before it.
C20_Witness ==
    /\ lastOp.op = "addBlock"
    /\ tampers = 1
    /\ difficulty >= 1
    /\ Len(chain) = 3
    /\ Cardinality({chain[i] : i \in 1..3}) = 3
    /\ heap[chain[3]].hash = calculateHash(heap[chain[3]])
    /\ heap[chain[3]].previousHash = heap[chain[2]].hash
    /\ ~isChainValid(heap, SubSeq(chain, 1, 2))
    /\ ~isChainValid(heap, chain)

====
